---- MODULE Spec2Model ----
(***************************************************************************)
(* Fixed-width batch file codec and editor (kyriba_cli.py).                *)
(*                                                                         *)
(* A line is the string of its characters without the "\n" terminator, and *)
(* the file is the sequence of its lines.  The terminator never changes a  *)
(* parsed value: it is the last character of the line readlines() returns, *)
(* so a slice holds it only as its last character, where strip() removes   *)
(* it.  Strings are taken apart with Len, SubSeq, Head, Tail and \o.       *)
(*                                                                         *)
(* An amount is a Python float.  Every amount of the model is the double   *)
(* nearest to c/100 for a natural number of cents c (what float(s)/100     *)
(* yields for a digit string s, and what a two-decimal literal such as     *)
(* 0.29 denotes); it is represented by c.  The float operations the code   *)
(* applies to it are computed on that representation, see IntTimes100 and  *)
(* RoundedSum.                                                             *)
(***************************************************************************)
EXTENDS Integers, Sequences, FiniteSets, TLC

(***************************************************************************)
(* Module constants, lines 11-15.                                          *)
(***************************************************************************)
HEADER_FIELD_ID == "01"
TRANSACTION_FIELD_ID == "02"
FOOTER_FIELD_ID == "03"
LINE_LENGTH == 120
CURRENCY_VALUES == {"USD", "EUR", "GBP", "PLN", "AZN", "TRL"}

(***************************************************************************)
(* Python string primitives used by the codec.                             *)
(***************************************************************************)
Digits == {"0", "1", "2", "3", "4", "5", "6", "7", "8", "9"}

Min(a, b) == IF a < b THEN a ELSE b

\* A run of 120 spaces and a run of 12 zeros, to cut the fill from.
Blank == "                                                                                                                        "
Zeros == "000000000000"

\* ch * n, for the fill characters of the layout (n within the run's length).
Fill(ch, n) == SubSeq(IF ch = "0" THEN Zeros ELSE Blank, 1, n)

\* s[i - 1], the i-th character of s.
Char(s, i) == SubSeq(s, i, i)

\* s[a:b] for 0 <= a <= b: clipped to the length of s, never an error.
Slice(s, a, b) == SubSeq(s, a + 1, Min(b, Len(s)))

\* The first position at or after i, and the last at or before i, of a
\* character of s that is no space (Len(s) + 1 and 0 when there is none).
RECURSIVE FirstNonBlank(_, _)
FirstNonBlank(s, i) ==
    IF i > Len(s) \/ Char(s, i) # " " THEN i ELSE FirstNonBlank(s, i + 1)

RECURSIVE LastNonBlank(_, _)
LastNonBlank(s, i) ==
    IF i = 0 \/ Char(s, i) # " " THEN i ELSE LastNonBlank(s, i - 1)

LStrip(s) == SubSeq(s, FirstNonBlank(s, 1), Len(s))

RStrip(s) == SubSeq(s, 1, LastNonBlank(s, Len(s)))

\* str.strip() on the model's alphabet, whose only whitespace is " ".
Strip(s) == RStrip(LStrip(s))

\* str.ljust(n): pads on the right, never truncates.
Ljust(s, n) == IF Len(s) >= n THEN s ELSE s \o Fill(" ", n - Len(s))

\* str.zfill(n): pads with zeros on the left (after a sign), never truncates.
Zfill(s, n) ==
    IF Len(s) >= n THEN s
    ELSE IF s # "" /\ Head(s) \in {"+", "-"}
         THEN Head(s) \o Fill("0", n - Len(s)) \o Tail(s)
         ELSE Fill("0", n - Len(s)) \o s

\* str.isdigit() on the model's alphabet: non-empty, decimal digits only.
IsDigit(s) == s # "" /\ \A i \in 1..Len(s) : Char(s, i) \in Digits

DigitVal(ch) ==
    CASE ch = "0" -> 0 [] ch = "1" -> 1 [] ch = "2" -> 2 [] ch = "3" -> 3
      [] ch = "4" -> 4 [] ch = "5" -> 5 [] ch = "6" -> 6 [] ch = "7" -> 7
      [] ch = "8" -> 8 [] ch = "9" -> 9

DigitChar(d) ==
    CASE d = 0 -> "0" [] d = 1 -> "1" [] d = 2 -> "2" [] d = 3 -> "3"
      [] d = 4 -> "4" [] d = 5 -> "5" [] d = 6 -> "6" [] d = 7 -> "7"
      [] d = 8 -> "8" [] d = 9 -> "9"

\* The value of a digit string.
RECURSIVE DigitsValue(_)
DigitsValue(s) ==
    IF s = "" THEN 0
    ELSE 10 * DigitsValue(SubSeq(s, 1, Len(s) - 1)) + DigitVal(Char(s, Len(s)))

\* int(s) and float(s) of a stripped field succeed (no ValueError): on the
\* numeric fields of the model's files, which hold digits, spaces and the
\* letters A and x, that is on the non-empty digit strings.
Parses(s) == IsDigit(s)

\* str(n) of a natural number.
RECURSIVE Str(_)
Str(n) == IF n < 10 THEN DigitChar(n) ELSE Str(n \div 10) \o DigitChar(n % 10)

(***************************************************************************)
(* Float arithmetic of the codec on the cents representation.              *)
(*                                                                         *)
(* IntTimes100(c) is int(x * 100) for x the double nearest c/100.  With    *)
(* c/100 = (c/25)/4 and 2^E <= c/25 < 2^(E+1), x = m * 2^-(s+2) for        *)
(* s = 52 - E and m = c*2^s/25 rounded to the nearest integer; so the      *)
(* exact product is 100*x = c + d/2^s with d = 25*m - c*2^s, |d| <= 12,    *)
(* and d is fixed by r = c*2^s mod 25 (2^20 = 1 mod 25).  The product is   *)
(* then rounded to a double: c itself is one, and its spacing just below c *)
(* is 2^(L-53) for 2^(L-1) < c < 2^L (half of that below c = 2^(L-1)), so  *)
(* the product rounds to a double below c exactly when d < 0 and           *)
(* |d|/2^s exceeds half that spacing (a tie rounds to c, whose mantissa is *)
(* even); int() then truncates it to c - 1.                                *)
(***************************************************************************)
RECURSIVE Pow2(_)
Pow2(n) == IF n = 0 THEN 1 ELSE 2 * Pow2(n - 1)

RECURSIVE BitLength(_)
BitLength(c) == IF c = 0 THEN 0 ELSE 1 + BitLength(c \div 2)

IntTimes100(c) ==
    IF c = 0 THEN 0
    ELSE LET L == BitLength(c)
             \* E - (L - 6), for E the binary exponent of c/25
             hi == IF 32 * c >= 25 * Pow2(L) THEN 1 ELSE 0
             \* s = 52 - E, used modulo 20, kept non-negative
             s20 == (52 + 6 + 200 - L - hi) % 20
             r == ((c % 25) * (Pow2(s20) % 25)) % 25
             below == IF r = 0 \/ r >= 13 THEN 0 ELSE r
             \* half the spacing of the doubles below c, in units of 2^-s
             half == IF c = Pow2(L - 1) THEN Pow2(3 - hi) ELSE Pow2(4 - hi)
         IN  IF below > half THEN c - 1 ELSE c

(***************************************************************************)
(* Records: the namedtuples of lines 6-8.  "type" is the namedtuple class  *)
(* (what isinstance tests), apart from the field_id attribute.             *)
(***************************************************************************)
Header(field_id, name, surname, patronymic, address) ==
    [type |-> "Header", field_id |-> field_id, name |-> name,
     surname |-> surname, patronymic |-> patronymic, address |-> address]

Transaction(field_id, counter, amount, currency) ==
    [type |-> "Transaction", field_id |-> field_id, counter |-> counter,
     amount |-> amount, currency |-> currency]

Footer(field_id, total_counter, control_sum) ==
    [type |-> "Footer", field_id |-> field_id,
     total_counter |-> total_counter, control_sum |-> control_sum]

\* parse_transaction's "return None".
None == [type |-> "None"]

(***************************************************************************)
(* Decode, lines 41-84.                                                    *)
(***************************************************************************)
parse_header(line) ==
    Header(Slice(line, 0, 2), Strip(Slice(line, 2, 30)), Strip(Slice(line, 30, 60)),
           Strip(Slice(line, 60, 90)), Strip(Slice(line, 90, 120)))

parse_transaction(line) ==
    LET counter_str == Strip(Slice(line, 2, 8))
        amount_str == Strip(Slice(line, 8, 20))
        currency == Strip(Slice(line, 20, 23))
    IN  IF Len(amount_str) # 12 \/ ~IsDigit(amount_str) THEN None
        ELSE IF ~Parses(counter_str) THEN None
        ELSE IF currency \notin CURRENCY_VALUES THEN None
        ELSE Transaction(TRANSACTION_FIELD_ID, DigitsValue(counter_str),
                         DigitsValue(amount_str), currency)

\* parse_footer raises ValueError when int() or float() fails.
FooterRaises(line) ==
    ~Parses(Strip(Slice(line, 2, 8))) \/ ~Parses(Strip(Slice(line, 8, 20)))

parse_footer(line) ==
    Footer(FOOTER_FIELD_ID, DigitsValue(Strip(Slice(line, 2, 8))),
           DigitsValue(Strip(Slice(line, 8, 20))))

(***************************************************************************)
(* Encode, lines 87-94.  Counters are natural numbers and amounts cents.   *)
(***************************************************************************)
format_header(header) ==
    header.field_id \o Ljust(header.name, 28) \o Ljust(header.surname, 30)
        \o Ljust(header.patronymic, 30) \o Ljust(header.address, 30)

format_transaction(transaction) ==
    transaction.field_id \o Zfill(Str(transaction.counter), 6)
        \o Zfill(Str(IntTimes100(transaction.amount)), 12)
        \o Ljust(transaction.currency, 3) \o Fill(" ", 97)

format_footer(footer) ==
    footer.field_id \o Zfill(Str(footer.total_counter), 6)
        \o Zfill(Str(IntTimes100(footer.control_sum)), 12) \o Fill(" ", 100)

(***************************************************************************)
(* read_file and write_file, lines 25-39 and 99-110.                       *)
(***************************************************************************)
\* read_file raises ValueError at the first Footer line parse_footer rejects.
ReadRaises(lines) ==
    \E i \in 1..Len(lines) :
        Slice(lines[i], 0, 2) = FOOTER_FIELD_ID /\ FooterRaises(lines[i])

\* A decoder that stops at the first Transaction line it rejects.
RECURSIVE read_file_aborting(_)
read_file_aborting(lines) ==
    IF lines = <<>> THEN <<>>
    ELSE LET line == Head(lines)
             field_id == Slice(line, 0, 2)
             rest == read_file_aborting(Tail(lines))
         IN  IF field_id = HEADER_FIELD_ID THEN <<parse_header(line)>> \o rest
             ELSE IF field_id = TRANSACTION_FIELD_ID
                  THEN LET transaction == parse_transaction(line)
                       IN  IF transaction # None THEN <<transaction>> \o rest
                           ELSE <<>>
             ELSE IF field_id = FOOTER_FIELD_ID THEN <<parse_footer(line)>> \o rest
             ELSE rest

RECURSIVE read_file(_)
read_file(lines) ==
    IF lines = <<>> THEN <<>>
    ELSE LET line == Head(lines)
             field_id == Slice(line, 0, 2)
             rest == read_file(Tail(lines))
         IN  IF field_id = HEADER_FIELD_ID THEN <<parse_header(line)>> \o rest
             ELSE IF field_id = TRANSACTION_FIELD_ID
                  THEN LET transaction == parse_transaction(line)
                       IN  IF transaction # None THEN <<transaction>> \o rest
                           ELSE rest
             ELSE IF field_id = FOOTER_FIELD_ID THEN <<parse_footer(line)>> \o rest
             ELSE rest

\* The lines write_file writes for the records, in order.
RECURSIVE write_file(_)
write_file(records) ==
    IF records = <<>> THEN <<>>
    ELSE LET record == Head(records)
             rest == write_file(Tail(records))
         IN  IF record.type = "Header" THEN <<format_header(record)>> \o rest
             ELSE IF record.type = "Transaction"
                  THEN <<format_transaction(record)>> \o rest
             ELSE IF record.type = "Footer" THEN <<format_footer(record)>> \o rest
             ELSE rest

(***************************************************************************)
(* The editor, lines 124-203.                                              *)
(***************************************************************************)
\* The fields of a namedtuple class.
Fields(record_type) ==
    CASE record_type = "Header" ->
             {"field_id", "name", "surname", "patronymic", "address"}
      [] record_type = "Transaction" -> {"field_id", "counter", "amount", "currency"}
      [] record_type = "Footer" -> {"field_id", "total_counter", "control_sum"}

\* hasattr(record, field_name) for a record of class record_type, for names
\* that are no attribute of every tuple (count, index, the dunder names).
hasattr(record_type, field_name) == field_name \in Fields(record_type)

\* The index of the first record of the class, 0 when there is none.
FirstOf(records, record_type) ==
    IF \E i \in 1..Len(records) : records[i].type = record_type
    THEN CHOOSE i \in 1..Len(records) :
             /\ records[i].type = record_type
             /\ \A j \in 1..(i - 1) : records[j].type # record_type
    ELSE 0

\* get_field_value on the decoded records: what it returns and what it logs.
get_field_value(records, record_type, field_name) ==
    LET i == FirstOf(records, record_type)
    IN  IF i = 0 THEN [ret |-> "None", val |-> <<>>, log |-> "No record of type found"]
        ELSE IF hasattr(record_type, field_name)
             THEN [ret |-> "value", val |-> <<records[i][field_name]>>, log |-> ""]
        ELSE [ret |-> "None", val |-> <<>>, log |-> "Field not found"]

\* updated_records of change_field_value.
change_field_value(records, record_type, field_name, new_value) ==
    [i \in 1..Len(records) |->
        IF records[i].type = record_type /\ hasattr(record_type, field_name)
        THEN [records[i] EXCEPT ![field_name] = new_value]
        ELSE records[i]]

\* records.insert(-1, new_transaction): before the last element, or into an
\* empty list.
add_transaction(records, counter, amount, currency) ==
    LET new_transaction == Transaction(TRANSACTION_FIELD_ID, counter, amount, currency)
        n == Len(records)
    IN  IF n = 0 THEN <<new_transaction>>
        ELSE SubSeq(records, 1, n - 1) \o <<new_transaction>> \o <<records[n]>>

RECURSIVE SumAmounts(_)
SumAmounts(transactions) ==
    IF transactions = <<>> THEN 0
    ELSE Head(transactions).amount + SumAmounts(Tail(transactions))

\* round(sum([i.amount for i in transactions]), 2), in cents: the float sum
\* of doubles nearest c_i/100 is off the exact sum by far less than half a
\* cent, so round(.., 2) yields the double nearest (c_1 + .. + c_n)/100.
RoundedSum(transactions) == SumAmounts(transactions)

\* round(records[-1].control_sum, 2), in cents: the double nearest c/100
\* rounds to itself.
RoundedControlSum(footer) == footer.control_sum

\* A validator that leaves out the total-counter check.
validate_without_counter(records) ==
    IF records = <<>> THEN [ret |-> "IndexError", log |-> ""]
    ELSE LET n == Len(records)
             transactions == SubSeq(records, 2, n - 1)
         IN  IF records[1].type # "Header"
             THEN [ret |-> "False", log |-> "First record is not a Header."]
             ELSE IF records[n].type # "Footer"
             THEN [ret |-> "False", log |-> "Last record is not a Footer."]
             ELSE IF ~\A i \in 1..Len(transactions) :
                         transactions[i].type = "Transaction"
             THEN [ret |-> "False", log |-> "Some records between the Header and Footer are not Transactions."]
             ELSE IF RoundedSum(transactions) # RoundedControlSum(records[n])
             THEN [ret |-> "False", log |-> "Footer control sum mismatch."]
             ELSE [ret |-> "True", log |-> "File structure is valid."]

\* A validator that checks the total counter before the middle slice.
validate_counter_first(records) ==
    IF records = <<>> THEN [ret |-> "IndexError", log |-> ""]
    ELSE LET n == Len(records)
             transactions == SubSeq(records, 2, n - 1)
         IN  IF records[1].type # "Header"
             THEN [ret |-> "False", log |-> "First record is not a Header."]
             ELSE IF records[n].type # "Footer"
             THEN [ret |-> "False", log |-> "Last record is not a Footer."]
             ELSE IF records[n].total_counter # Len(transactions)
             THEN [ret |-> "False", log |-> "Footer total counter does not match the number of transactions."]
             ELSE IF ~\A i \in 1..Len(transactions) :
                         transactions[i].type = "Transaction"
             THEN [ret |-> "False", log |-> "Some records between the Header and Footer are not Transactions."]
             ELSE IF RoundedSum(transactions) # RoundedControlSum(records[n])
             THEN [ret |-> "False", log |-> "Footer control sum mismatch."]
             ELSE [ret |-> "True", log |-> "File structure is valid."]

\* validate_file_structure on the decoded records: what it returns and logs;
\* records[0] of an empty list raises IndexError.
validate_file_structure(records) ==
    IF records = <<>> THEN [ret |-> "IndexError", log |-> ""]
    ELSE LET n == Len(records)
             transactions == SubSeq(records, 2, n - 1)
         IN  IF records[1].type # "Header"
             THEN [ret |-> "False", log |-> "First record is not a Header."]
             ELSE IF records[n].type # "Footer"
             THEN [ret |-> "False", log |-> "Last record is not a Footer."]
             ELSE IF ~\A i \in 1..Len(transactions) :
                         transactions[i].type = "Transaction"
             THEN [ret |-> "False", log |-> "Some records between the Header and Footer are not Transactions."]
             ELSE IF records[n].total_counter # Len(transactions)
             THEN [ret |-> "False", log |-> "Footer total counter does not match the number of transactions."]
             ELSE IF RoundedSum(transactions) # RoundedControlSum(records[n])
             THEN [ret |-> "False", log |-> "Footer control sum mismatch."]
             ELSE [ret |-> "True", log |-> "File structure is valid."]

(***************************************************************************)
(* Inputs: the texts, numbers and stored files the operations are run on.  *)
(***************************************************************************)
USD == "USD"
EUR == "EUR"
XYZ == "XYZ"
Ann == "Ann"
Lee == "Lee"
Roy == "Roy"
Baku == "Baku"
Smith == "Smith"
\* One character more than the name column holds.
LongName == "xxxxxxxxxxxxxxxxxxxxxxxxxxxxx"

\* Lines in the persisted layout: tag, zero-padded digits, space fill.
HeaderLine(name, surname, patronymic, address) ==
    HEADER_FIELD_ID \o Ljust(name, 28) \o Ljust(surname, 30)
        \o Ljust(patronymic, 30) \o Ljust(address, 30)

TransactionLine(counter, cents, currency) ==
    Ljust(TRANSACTION_FIELD_ID \o Zfill(Str(counter), 6) \o Zfill(Str(cents), 12)
              \o currency, 120)

FooterLine(total_counter, cents) ==
    Ljust(FOOTER_FIELD_ID \o Zfill(Str(total_counter), 6) \o Zfill(Str(cents), 12), 120)

H1 == HeaderLine(Ann, Lee, Roy, Baku)
H2 == HeaderLine(Roy, Ann, Lee, Baku)
\* Transaction lines the decoder rejects: a non-digit in the amount, a
\* non-digit in the counter, a currency outside the allowed set.
BadAmountLine ==
    Ljust(TRANSACTION_FIELD_ID \o Zfill(Str(2), 6) \o "000000000A00" \o USD, 120)
BadCounterLine ==
    Ljust(TRANSACTION_FIELD_ID \o "0000x2" \o Zfill(Str(2500), 12) \o USD, 120)
BadCurrencyLine == TransactionLine(2, 2500, XYZ)
\* A line of no known tag, and a Footer line whose control sum is no number.
UnknownLine == Ljust("09" \o Ann, 120)
BadFooterLine ==
    Ljust(FOOTER_FIELD_ID \o Zfill(Str(1), 6) \o "000000000A00", 120)

\* Files that pass validate_file_structure and hold only canonical lines.
WellFormedFiles ==
    { <<H1, FooterLine(0, 0)>>,
      <<H1, TransactionLine(1, 2000, USD), TransactionLine(2, 2500, EUR),
        FooterLine(2, 4500)>>,
      <<H1, TransactionLine(1, 29, USD), FooterLine(1, 29)>> }

\* Files with lines the decoder drops, or of a wrong structure.
OtherFiles ==
    { <<>>,
      <<H1>>,
      <<BadAmountLine>>,
      <<H1, H2, FooterLine(0, 0)>>,
      <<TransactionLine(1, 2000, USD), H1, FooterLine(1, 2000)>>,
      <<H1, TransactionLine(1, 2000, USD), FooterLine(2, 2000)>>,
      <<H1, TransactionLine(1, 2000, USD), FooterLine(1, 1999)>>,
      <<H1, TransactionLine(1, 2000, USD), BadAmountLine, FooterLine(1, 2000)>>,
      <<H1, BadCounterLine, TransactionLine(1, 2000, USD), FooterLine(1, 2000)>>,
      <<H1, TransactionLine(1, 2000, USD), BadCurrencyLine, UnknownLine,
        FooterLine(1, 2000)>>,
      <<H1, TransactionLine(1, 2000, USD), BadFooterLine>> }

InitialFiles == WellFormedFiles \cup OtherFiles

RecordTypes == {"Header", "Transaction", "Footer"}

\* Field names asked for: fields of the class, and a name no record has.
FieldNames(record_type) ==
    CASE record_type = "Header" -> {"surname", "name", "nosuch"}
      [] record_type = "Transaction" -> {"counter", "currency", "amount", "nosuch"}
      [] record_type = "Footer" -> {"total_counter", "control_sum", "nosuch"}

\* New values, each of the type of the field it is assigned to.
NewValues(field_name) ==
    CASE field_name = "surname" -> {Smith}
      [] field_name = "name" -> {LongName}
      [] field_name = "counter" -> {7}
      [] field_name = "currency" -> {EUR, XYZ}
      [] field_name = "amount" -> {29}
      [] field_name = "total_counter" -> {1}
      [] field_name = "control_sum" -> {2000}
      [] OTHER -> {Smith}

NewCounters == {3, 1000000}
NewAmounts == {4500, 57}
NewCurrencies == {USD}

\* The number of operations of a run.
MaxOps == 2

(***************************************************************************)
(* State.  file is the persisted file and start the file the run began     *)
(* with.  prev, last and nops record the file before the editor's last     *)
(* call, that call with its outcome, and the number of calls made.         *)
(* crec, cline, cback, cphase are a record, its encoding and the decoding  *)
(* of that.  pc, mem, call, first, overlap are two callers' positions in   *)
(* their calls, the records each holds in memory, the call each makes, the *)
(* caller that began first, and whether the two calls overlapped.          *)
(***************************************************************************)
VARIABLES file, start, prev, last, nops, crec, cline, cback, cphase,
          pc, mem, call, first, overlap

editorVars == <<prev, last, nops>>
codecVars == <<crec, cline, cback, cphase>>
callerVars == <<pc, mem, call, first, overlap>>
vars == <<file, start, editorVars, codecVars, callerVars>>

Callers == {1, 2}

NoCall == [op |-> "none", type |-> "", field |-> "", args |-> <<>>,
           ret |-> "", val |-> <<>>, log |-> ""]

EditorAtRest == prev = file /\ last = NoCall /\ nops = 0

CodecAtRest == crec = None /\ cline = "" /\ cback = None /\ cphase = "off"

CallersAtRest ==
    /\ pc = [c \in Callers |-> "off"]
    /\ mem = [c \in Callers |-> <<>>]
    /\ call = [c \in Callers |-> <<>>]
    /\ first = 0
    /\ overlap = FALSE

(***************************************************************************)
(* The editor, one caller: every call runs from its read to its write.     *)
(***************************************************************************)
Init ==
    /\ file \in InitialFiles
    /\ start = file
    /\ EditorAtRest
    /\ CodecAtRest
    /\ CallersAtRest

\* A call whose read_file raises ValueError: nothing is written.
Raised(op, record_type, field_name, args) ==
    /\ last' = [op |-> op, type |-> record_type, field |-> field_name, args |-> args,
                ret |-> "ValueError", val |-> <<>>, log |-> ""]
    /\ file' = file

Called ==
    /\ nops < MaxOps
    /\ nops' = nops + 1
    /\ prev' = file
    /\ UNCHANGED <<start, codecVars, callerVars>>

GetFieldValue ==
    \E record_type \in RecordTypes : \E field_name \in FieldNames(record_type) :
        /\ Called
        /\ IF ReadRaises(file) THEN Raised("get_field_value", record_type, field_name, <<>>)
           ELSE LET out == get_field_value(read_file(file), record_type, field_name)
                IN  /\ last' = [op |-> "get_field_value", type |-> record_type,
                                field |-> field_name, args |-> <<>>,
                                ret |-> out.ret, val |-> out.val, log |-> out.log]
                    /\ file' = file

ChangeFieldValue ==
    \E record_type \in RecordTypes : \E field_name \in FieldNames(record_type) :
      \E new_value \in NewValues(field_name) :
        /\ Called
        /\ IF ReadRaises(file)
           THEN Raised("change_field_value", record_type, field_name, <<new_value>>)
           ELSE /\ file' = write_file(change_field_value(
                               read_file(file), record_type, field_name, new_value))
                /\ last' = [op |-> "change_field_value", type |-> record_type,
                            field |-> field_name, args |-> <<new_value>>,
                            ret |-> "None", val |-> <<>>, log |-> ""]

AddTransaction ==
    \E counter \in NewCounters : \E amount \in NewAmounts :
      \E currency \in NewCurrencies :
        /\ Called
        /\ IF ReadRaises(file)
           THEN Raised("add_transaction", "Transaction", "", <<counter, amount, currency>>)
           ELSE /\ file' = write_file(add_transaction(
                               read_file(file), counter, amount, currency))
                /\ last' = [op |-> "add_transaction", type |-> "Transaction",
                            field |-> "", args |-> <<counter, amount, currency>>,
                            ret |-> "None", val |-> <<>>, log |-> ""]

ValidateFileStructure ==
    /\ Called
    /\ IF ReadRaises(file) THEN Raised("validate_file_structure", "", "", <<>>)
       ELSE LET out == validate_file_structure(read_file(file))
            IN  /\ last' = [op |-> "validate_file_structure", type |-> "",
                            field |-> "", args |-> <<>>,
                            ret |-> out.ret, val |-> <<>>, log |-> out.log]
                /\ file' = file

Next == GetFieldValue \/ ChangeFieldValue \/ AddTransaction \/ ValidateFileStructure

Spec == Init /\ [][Next]_vars

(***************************************************************************)
(* The codec on one Transaction: format_transaction, then                  *)
(* parse_transaction of the line it produced.                              *)
(***************************************************************************)
\* The largest amount, in cents, of the records encoded.
MaxCents == 60

CodecCounters == {0, 1, 42, 999999}

ValidTransactions ==
    { Transaction(TRANSACTION_FIELD_ID, counter, amount, currency) :
        counter \in CodecCounters, amount \in 0..MaxCents, currency \in CURRENCY_VALUES }

InitCodec ==
    /\ crec \in ValidTransactions
    /\ cline = ""
    /\ cback = None
    /\ cphase = "record"
    /\ file = <<>>
    /\ start = file
    /\ EditorAtRest
    /\ CallersAtRest

Encode ==
    /\ cphase = "record"
    /\ cline' = format_transaction(crec)
    /\ cphase' = "encoded"
    /\ UNCHANGED <<crec, cback, file, start, editorVars, callerVars>>

Decode ==
    /\ cphase = "encoded"
    /\ cback' = parse_transaction(cline)
    /\ cphase' = "decoded"
    /\ UNCHANGED <<crec, cline, file, start, editorVars, callerVars>>

NextCodec == Encode \/ Decode

SpecCodec == InitCodec /\ [][NextCodec]_vars

(***************************************************************************)
(* Two callers on the same file.  A call is read_file (open, readlines),   *)
(* the change in memory, then write_file: open(path, "w") truncates the    *)
(* file, and the lines written reach it when the with-block closes it (the *)
(* files here are smaller than the writer's buffer).                       *)
(***************************************************************************)
RaceCalls ==
    << [op |-> "change_field_value", type |-> "Header", field |-> "surname",
        args |-> <<Smith>>],
       [op |-> "add_transaction", type |-> "Transaction", field |-> "",
        args |-> <<3, 4500, USD>>],
       [op |-> "change_field_value", type |-> "Transaction", field |-> "currency",
        args |-> <<EUR>>],
       [op |-> "add_transaction", type |-> "Transaction", field |-> "",
        args |-> <<4, 2500, EUR>>] >>

RaceFiles == WellFormedFiles \cup { <<H1, TransactionLine(1, 2000, USD), BadFooterLine>> }

\* The records a call leaves in memory for write_file.
Updated(c, records) ==
    IF c.op = "change_field_value"
    THEN change_field_value(records, c.type, c.field, c.args[1])
    ELSE add_transaction(records, c.args[1], c.args[2], c.args[3])

\* A call that keeps the records decoded when the run began.
ReadStoreCached == read_file(start)

\* records = self.file.read_file(): decoded from the file as it is now.
ReadStore == read_file(file)

InitRace ==
    /\ file \in RaceFiles
    /\ start = file
    /\ EditorAtRest
    /\ CodecAtRest
    /\ pc = [c \in Callers |-> "idle"]
    /\ mem = [c \in Callers |-> <<>>]
    /\ \E i \in 1..Len(RaceCalls) : \E j \in 1..Len(RaceCalls) :
           call = [c \in Callers |-> IF c = 1 THEN RaceCalls[i] ELSE RaceCalls[j]]
    /\ first = 0
    /\ overlap = FALSE

InCall(c) == pc[c] \in {"read", "opened"}

\* read_file and the change in memory; a ValueError ends the call.
Begin(c) ==
    /\ pc[c] = "idle"
    /\ IF ReadRaises(file)
       THEN /\ pc' = [pc EXCEPT ![c] = "raised"]
            /\ mem' = mem
       ELSE /\ pc' = [pc EXCEPT ![c] = "read"]
            /\ mem' = [mem EXCEPT ![c] = Updated(call[c], ReadStore)]
    /\ first' = IF first = 0 THEN c ELSE first
    /\ overlap' = (overlap \/ \E d \in Callers \ {c} : InCall(d))
    /\ UNCHANGED <<file, start, call, editorVars, codecVars>>

\* write_file: open(self.file_path, "w").
Open(c) ==
    /\ pc[c] = "read"
    /\ file' = <<>>
    /\ pc' = [pc EXCEPT ![c] = "opened"]
    /\ UNCHANGED <<start, mem, call, first, overlap, editorVars, codecVars>>

\* write_file: the formatted lines, written as the file is closed.
Close(c) ==
    /\ pc[c] = "opened"
    /\ file' = write_file(mem[c])
    /\ pc' = [pc EXCEPT ![c] = "done"]
    /\ UNCHANGED <<start, mem, call, first, overlap, editorVars, codecVars>>

NextRace == \E c \in Callers : Begin(c) \/ Open(c) \/ Close(c)

SpecRace == InitRace /\ [][NextRace]_vars

(***************************************************************************)
(* Properties.  Before and After are the decoded sequences S and S' of the *)
(* file before and after the editor's last call.                           *)
(***************************************************************************)
Before == read_file(prev)
After == read_file(file)

Completed(op) == last.op = op /\ last.ret # "ValueError"

\* C1: for every valid Transaction r, parse_transaction of the line
\* format_transaction(r) produces equals r in every field.
C1_RoundTrip == cphase = "decoded" => cback = crec

(***************************************************************************)
(* The five structural checks, as the specification states them.           *)
(***************************************************************************)
RECURSIVE AmountsUpTo(_, _)
AmountsUpTo(S, i) == IF i < 2 THEN 0 ELSE S[i].amount + AmountsUpTo(S, i - 1)

MiddleAllTransactions(S) == \A i \in 2..(Len(S) - 1) : S[i].type = "Transaction"

FiveChecks(S) ==
    /\ S[1].type = "Header"
    /\ S[Len(S)].type = "Footer"
    /\ MiddleAllTransactions(S)
    /\ S[Len(S)].total_counter = Len(S) - 2
    /\ S[Len(S)].control_sum = AmountsUpTo(S, Len(S) - 1)

\* C2: on a decoded sequence of two or more records, validate_file_structure
\* returns True exactly when the five structural checks hold.
C2_ValidIffFiveChecks ==
    (Completed("validate_file_structure") /\ Len(After) >= 2)
        => last.ret = (IF FiveChecks(After) THEN "True" ELSE "False")

\* A sequence with Transactions between Header and Footer was reported valid.
C2_Witness ==
    /\ Completed("validate_file_structure")
    /\ Len(After) >= 3
    /\ last.ret = "True"

LaterReasons ==
    { "Footer total counter does not match the number of transactions.",
      "Footer control sum mismatch." }

\* C3 as stated: whenever the middle slice holds a non-Transaction, the
\* verdict is Invalid with the "not all Transactions" reason.
C3_AlwaysMiddleReason ==
    (Completed("validate_file_structure") /\ ~MiddleAllTransactions(After))
        => (last.ret = "False" /\ last.log = "Some records between the Header and Footer are not Transactions.")

\* C3 amended: whenever the middle slice holds a non-Transaction, the verdict
\* is Invalid, its reason is never a later check's, and it is the "not all
\* Transactions" reason when the first record is a Header and the last a
\* Footer (otherwise the reason of the earlier check that failed).
C3_FirstFailingReason ==
    (Completed("validate_file_structure") /\ ~MiddleAllTransactions(After))
        => /\ last.ret = "False"
           /\ last.log \notin LaterReasons
           /\ last.log = (IF After[1].type # "Header"
                              THEN "First record is not a Header."
                          ELSE IF After[Len(After)].type # "Footer"
                              THEN "Last record is not a Footer."
                          ELSE "Some records between the Header and Footer are not Transactions.")

\* A non-Transaction in the middle was reported as such, in a file whose
\* Footer counter is wrong too.
C3_Witness ==
    /\ Completed("validate_file_structure")
    /\ ~MiddleAllTransactions(After)
    /\ last.log = "Some records between the Header and Footer are not Transactions."
    /\ After[Len(After)].total_counter # Len(After) - 2

(***************************************************************************)
(* Values that fit the field they are given to.                            *)
(***************************************************************************)
FitsField(field_name, value) ==
    CASE field_name = "name" -> Len(value) <= 28 /\ Strip(value) = value
      [] field_name \in {"surname", "patronymic", "address"} ->
             Len(value) <= 30 /\ Strip(value) = value
      [] field_name \in {"counter", "total_counter"} -> value <= 999999
      [] field_name \in {"amount", "control_sum"} -> value >= 0
      [] field_name = "currency" -> value \in CURRENCY_VALUES
      [] OTHER -> TRUE

\* C4: change_field_value(kind, field, v) persists a sequence of the same
\* length and order in which every record of the kind has the field equal to
\* v and its other fields unchanged, and every other record is unchanged
\* (stated for values v that fit the field).
C4_ChangeFrame ==
    (Completed("change_field_value") /\ FitsField(last.field, last.args[1]))
        => /\ ~ReadRaises(file)
           /\ Len(After) = Len(Before)
           /\ \A i \in 1..Len(Before) :
                 After[i] = (IF Before[i].type = last.type
                                   /\ last.field \in Fields(last.type)
                             THEN [Before[i] EXCEPT ![last.field] = last.args[1]]
                             ELSE Before[i])

\* C5: add_transaction on a sequence of n >= 1 records persists n + 1 records
\* with the new Transaction immediately before the last one and every record
\* of S unchanged, the Footer's total_counter and control_sum included
\* (stated for a counter of at most six digits and an allowed currency).
C5_InsertBeforeLast ==
    (/\ Completed("add_transaction")
     /\ Len(Before) >= 1
     /\ FitsField("counter", last.args[1])
     /\ FitsField("currency", last.args[3]))
        => /\ ~ReadRaises(file)
           /\ Len(After) = Len(Before) + 1
           /\ After[Len(Before)] = Transaction(TRANSACTION_FIELD_ID, last.args[1],
                                               last.args[2], last.args[3])
           /\ \A i \in 1..(Len(Before) - 1) : After[i] = Before[i]
           /\ After[Len(Before) + 1] = Before[Len(Before)]

(***************************************************************************)
(* The lines a lenient decode keeps, as the specification states them.     *)
(***************************************************************************)
Tag(line) == Slice(line, 0, 2)

RejectedTransactionLine(line) ==
    /\ Tag(line) = TRANSACTION_FIELD_ID
    /\ \/ ~(Len(Strip(Slice(line, 8, 20))) = 12 /\ IsDigit(Strip(Slice(line, 8, 20))))
       \/ ~Parses(Strip(Slice(line, 2, 8)))
       \/ Strip(Slice(line, 20, 23)) \notin CURRENCY_VALUES

KeptLine(line) ==
    /\ Tag(line) \in {HEADER_FIELD_ID, TRANSACTION_FIELD_ID, FOOTER_FIELD_ID}
    /\ ~RejectedTransactionLine(line)

RecordOfLine(line) ==
    IF Tag(line) = HEADER_FIELD_ID THEN parse_header(line)
    ELSE IF Tag(line) = TRANSACTION_FIELD_ID THEN parse_transaction(line)
    ELSE parse_footer(line)

\* The indices of the kept lines of the first n lines, in file order.
RECURSIVE KeptIndices(_, _)
KeptIndices(lines, n) ==
    IF n = 0 THEN <<>>
    ELSE KeptIndices(lines, n - 1) \o (IF KeptLine(lines[n]) THEN <<n>> ELSE <<>>)

C7_LineWidth ==
    start \in WellFormedFiles => \A i \in 1..Len(file) : Len(file[i]) = LINE_LENGTH

\* C8: when no record of the kind is stored, or the kind has no such field,
\* get_field_value and change_field_value report NotFound (return None) and
\* leave the persisted file as it was.
C8_NotFoundNoEffect ==
    (/\ (Completed("get_field_value") \/ Completed("change_field_value"))
     /\ \/ FirstOf(Before, last.type) = 0
        \/ last.field \notin Fields(last.type))
        => (last.ret = "None" /\ file = prev)

\* C9: validate_file_structure returns a verdict for every decodable
\* sequence, and reports every sequence of fewer than two records Invalid.
C9_AlwaysVerdict ==
    (last.op = "validate_file_structure" /\ ~ReadRaises(prev))
        => /\ last.ret \in {"True", "False"}
           /\ Len(Before) < 2 => last.ret = "False"

(***************************************************************************)
(* Two callers: the file a whole call produces from a file, and the file   *)
(* two calls produce run one after the other.                              *)
(***************************************************************************)
Apply(c, lines) == write_file(Updated(c, read_file(lines)))

Serial(a, b) == Apply(call[b], Apply(call[a], start))

BothDone == \A c \in Callers : pc[c] = "done"

\* C10: two mutating calls run one after the other, without interleaving,
\* leave the file with the effects of both: the file the second call makes
\* of the file the first call made.  (That an interleaving loses one call's
\* effect is the reachable state C10_LostUpdate.)
C10_SerialKeepsBoth ==
    (BothDone /\ ~overlap) => file = Serial(first, CHOOSE c \in Callers : c # first)

\* Both calls read the original file, both completed, and the file is what
\* one of them alone makes of the original file: the other call, which
\* changes the file when run alone, left nothing, and the file is neither
\* serial outcome.
C10_LostUpdate ==
    /\ BothDone
    /\ overlap
    /\ \A c \in Callers : mem[c] = Updated(call[c], read_file(start))
    /\ \E w \in Callers : \E l \in Callers \ {w} :
           /\ file = Apply(call[w], start)
           /\ Apply(call[l], start) # start
           /\ file \notin {Serial(1, 2), Serial(2, 1)}

====
